---- MODULE Spec2Model ----
(***************************************************************************)
(* State-machine model of the TalkNet speaking-segment tooling:            *)
(*   - extractSpeakingSegments.py : the script run (Spec, LiveSpec), its   *)
(*     pure detection and duration filter (DetectSpec) and the helper      *)
(*     extract_segment (ExtractSpec);                                      *)
(*   - batchProcessVideos.py      : the batch driver (BatchSpec).          *)
(*                                                                         *)
(* Conventions.  Python's None for `start` is the value None == -1 (frame  *)
(* indices are never negative).  Frame indices are 0-based as in the       *)
(* source, so frame i of an array is element i+1 of the TLA+ sequence.     *)
(* args.minDuration is carried in hundredths of a second and times in      *)
(* milliseconds, so that int(minDuration * 25) and the "%.3f" formatting   *)
(* of frame/25.0 are exact integer computations.                           *)
(***************************************************************************)
EXTENDS Integers, Sequences, FiniteSets, TLC

VARIABLES
    pc,                 \* position of the running script
    args,               \* parsed command line of extractSpeakingSegments.py
    pywork,             \* which of scores.pckl / tracks.pckl exist
    pickled,            \* content of the two pickles
    pycrop,             \* paths of the per-track artifacts that exist
    scores, tracks,     \* loaded collections (tracks: only its length is used)
    track_idx, score_array, segments, filtered_segments, has_wav,
    seg_idx, total_segments,
    calls,              \* every subprocess.call made so far (command lines)
    video_outcome,      \* what the current segment's cmd_video call did
    succeeded,          \* history: segments whose calls all returned zero
    raised,             \* history: segments that ended in the except clause
    summary,            \* <<>> until summary.txt is written, then <<content>>
    ex,                 \* arguments and locals of one extract_segment call
    outdir,             \* files existing in the output directory (extract_segment)
    bargs,              \* parsed command line of batchProcessVideos.py
    found,              \* videos in --videoFolder / samples of --hf_dataset
    videos,             \* the list built by the glob loop
    processed           \* one record per process_video call

vars == <<pc, args, pywork, pickled, pycrop, scores, tracks, track_idx,
          score_array, segments, filtered_segments, has_wav, seg_idx,
          total_segments, calls, video_outcome, succeeded, raised, summary, ex,
          outdir, bargs, found, videos,
          processed>>

runVars == <<args, pywork, pickled, pycrop, scores, tracks, track_idx,
             score_array, segments, filtered_segments, has_wav, seg_idx,
             total_segments, summary>>
exVars == <<ex, outdir>>
batchVars == <<bargs, found, videos, processed>>

----------------------------------------------------------------------------
(* Bounds of the model *)

MaxFrames == 4      \* longest enumerated score array (DetectSpec)
MaxTracks == 2      \* most tracks in one run (Spec)
MaxVideos == 2      \* most videos in a folder / samples in a dataset

(* Program constants *)

FPS == 25           \* the fixed frame rate
TrackDigits == 5    \* {track_idx:05d}
SegDigits == 3      \* {seg_idx:03d}

None == -1

Min(a, b) == IF a < b THEN a ELSE b

RECURSIVE SeqsUpTo(_, _)
SeqsUpTo(S, n) ==
    IF n = 0 THEN {<<>>}
    ELSE LET shorter == SeqsUpTo(S, n - 1)
         IN  shorter \cup {Append(s, x) : s \in {t \in shorter : Len(t) = n - 1}, x \in S}

----------------------------------------------------------------------------
(* find_speaking_segments *)

\* variant: a score equal to the threshold counts as speaking
Speaking_inclusive(arr, threshold) == [k \in 1..Len(arr) |-> arr[k] >= threshold]

\* speaking = score_array > threshold
Speaking(arr, threshold) == [k \in 1..Len(arr) |-> arr[k] > threshold]

\* variant: `start = None` is forgotten after an interval is closed
RECURSIVE ScanFrom_noReset(_, _, _, _)
ScanFrom_noReset(speaking, i, start, segs) ==
    IF i = Len(speaking)
    THEN IF start # None THEN Append(segs, <<start, Len(speaking)>>) ELSE segs
    ELSE IF speaking[i + 1] /\ start = None
         THEN ScanFrom_noReset(speaking, i + 1, i, segs)
         ELSE IF ~speaking[i + 1] /\ start # None
              THEN ScanFrom_noReset(speaking, i + 1, start, Append(segs, <<start, i>>))
              ELSE ScanFrom_noReset(speaking, i + 1, start, segs)

\* the for loop over enumerate(speaking), from iteration i on, and the tail
RECURSIVE ScanFrom(_, _, _, _)
ScanFrom(speaking, i, start, segs) ==
    IF i = Len(speaking)
    THEN IF start # None THEN Append(segs, <<start, Len(speaking)>>) ELSE segs
    ELSE IF speaking[i + 1] /\ start = None
         THEN ScanFrom(speaking, i + 1, i, segs)
         ELSE IF ~speaking[i + 1] /\ start # None
              THEN ScanFrom(speaking, i + 1, None, Append(segs, <<start, i>>))
              ELSE ScanFrom(speaking, i + 1, start, segs)

find_speaking_segments(arr, threshold) ==
    ScanFrom(Speaking(arr, threshold), 0, None, <<>>)

----------------------------------------------------------------------------
(* duration filter *)

\* Python int(): truncation toward zero of n/d
IntTrunc(n, d) == IF n >= 0 THEN n \div d ELSE -((-n) \div d)

\* variant: round(args.minDuration * 25) instead of int()
min_frames_rounded(minDuration) == (minDuration * FPS + 50) \div 100

\* int(args.minDuration * 25), minDuration in hundredths of a second
min_frames(minDuration) == IntTrunc(minDuration * FPS, 100)

Keeps(seg, minDuration) == (seg[2] - seg[1]) >= min_frames(minDuration)

\* [(s, e) for s, e in segments if (e - s) >= min_frames]
FilterSegments(segs, minDuration) ==
    SelectSeq(segs, LAMBDA seg : Keeps(seg, minDuration))

----------------------------------------------------------------------------
(* paths and ffmpeg command lines *)

DigitChars == <<"0", "1", "2", "3", "4", "5", "6", "7", "8", "9">>

RECURSIVE Decimal(_)
Decimal(n) ==
    IF n < 10 THEN <<DigitChars[n + 1]>>
    ELSE Decimal(n \div 10) \o <<DigitChars[(n % 10) + 1]>>

\* format spec 0<w>d: at least w digits, padded on the left with zeros
RECURSIVE ZeroPad(_, _)
ZeroPad(n, w) ==
    IF Len(Decimal(n)) >= w THEN Decimal(n)
    ELSE <<"0">> \o ZeroPad(n, w - 1)

\* os.path.join(args.pycropPath, f'{track_idx:05d}.avi') and .wav
InputVideo(k) == <<"pycrop/">> \o ZeroPad(k, TrackDigits) \o <<".avi">>
InputAudio(k) == <<"pycrop/">> \o ZeroPad(k, TrackDigits) \o <<".wav">>

\* f'track_{track_idx:05d}_segment_{seg_idx:03d}' under args.outputPath
OutputStem(k, j) ==
    <<"speaking_segments/", "track_">> \o ZeroPad(k, TrackDigits)
        \o <<"_segment_">> \o ZeroPad(j, SegDigits)
OutputFile(k, j) == OutputStem(k, j) \o <<".avi">>
OutputWav(k, j) == OutputStem(k, j) \o <<".wav">>

\* f"{frames / 25.0:.3f}" seconds, as milliseconds
Millis(frames) == (frames * 1000) \div FPS

\* ffmpeg -y -i <input> -ss <ss> -t <t> -c copy <out>
TrimCmd(input, ss, t, out) ==
    [op |-> "copy", input |-> input, ss |-> ss, t |-> t, out |-> out]

\* ffmpeg -y -i <input> -vn -acodec pcm_s16le -ar 16000 -ac 1 <out>
DecodeCmd(input, out) ==
    [op |-> "decode", input |-> input, acodec |-> "pcm_s16le",
     ar |-> 16000, ac |-> 1, out |-> out]

\* what one subprocess.call can do: return 0, return non-zero, raise
Outcomes == {"zero", "nonzero", "raised"}

\* position of seg in a list of intervals, 0-based
IndexIn(segs, seg) == (CHOOSE n \in 1..Len(segs) : segs[n] = seg) - 1

\* variant: the clip is numbered by its position in the unfiltered list
VideoCmd_unfilteredIndex(k, j, seg) ==
    TrimCmd(InputVideo(k), Millis(seg[1]), Millis(seg[2] - seg[1]),
            OutputFile(k, IndexIn(segments, seg)))

\* cmd_video of the main loop (line 129)
VideoCmd(k, j, seg) ==
    TrimCmd(InputVideo(k), Millis(seg[1]), Millis(seg[2] - seg[1]), OutputFile(k, j))

\* variant: without a WAV the audio is decoded from the whole track video
WavCmd_fromTrackVideo(k, j, seg, hasWav) ==
    IF hasWav
    THEN TrimCmd(InputAudio(k), Millis(seg[1]), Millis(seg[2] - seg[1]), OutputWav(k, j))
    ELSE DecodeCmd(InputVideo(k), OutputWav(k, j))

\* cmd_wav of the main loop (lines 133-138)
WavCmd(k, j, seg, hasWav) ==
    IF hasWav
    THEN TrimCmd(InputAudio(k), Millis(seg[1]), Millis(seg[2] - seg[1]), OutputWav(k, j))
    ELSE DecodeCmd(OutputFile(k, j), OutputWav(k, j))

----------------------------------------------------------------------------
(* extractSpeakingSegments.py: the script *)

\* lines 24-38: the two existence checks, then the loads
LoadInputs ==
    /\ pc = "start"
    /\ IF ~pywork.scores \/ ~pywork.tracks
       THEN /\ pc' = "exit1"
            /\ UNCHANGED <<scores, tracks>>
       ELSE /\ scores' = pickled.scores
            /\ tracks' = pickled.tracks
            /\ pc' = "track"
    /\ UNCHANGED <<args, pywork, pickled, pycrop, track_idx, score_array,
                   segments, filtered_segments, has_wav, seg_idx,
                   total_segments, calls, video_outcome, succeeded, raised,
                   summary, exVars, batchVars>>

\* lines 91-92: next element of enumerate(zip(scores, tracks))
NextTrack ==
    /\ pc = "track"
    /\ IF track_idx < Min(Len(scores), Len(tracks))
       THEN /\ score_array' = scores[track_idx + 1]
            /\ pc' = "detect"
       ELSE /\ pc' = "report"
            /\ UNCHANGED score_array
    /\ UNCHANGED <<args, pywork, pickled, pycrop, scores, tracks, track_idx,
                   segments, filtered_segments, has_wav, seg_idx,
                   total_segments, calls, video_outcome, succeeded, raised,
                   summary, exVars, batchVars>>

\* line 95
Detect ==
    /\ pc = "detect"
    /\ segments' = find_speaking_segments(score_array, args.threshold)
    /\ pc' = "filter"
    /\ UNCHANGED <<args, pywork, pickled, pycrop, scores, tracks, track_idx,
                   score_array, filtered_segments, has_wav, seg_idx,
                   total_segments, calls, video_outcome, succeeded, raised,
                   summary, exVars, batchVars>>

\* lines 98-99
Filter ==
    /\ pc = "filter"
    /\ filtered_segments' = FilterSegments(segments, args.minDuration)
    /\ pc' = "check"
    /\ UNCHANGED <<args, pywork, pickled, pycrop, scores, tracks, track_idx,
                   score_array, segments, has_wav, seg_idx,
                   total_segments, calls, video_outcome, succeeded, raised,
                   summary, exVars, batchVars>>

\* variant: the existence check of line 111 is left out
VideoPresent_unchecked(k) == TRUE

\* the track's video artifact is there (line 111)
VideoPresent(k) == InputVideo(k) \in pycrop

\* variant: a missing track video ends the run instead of skipping the track
CheckTrack_abortOnMissing ==
    /\ pc = "check"
    /\ IF Len(filtered_segments) = 0
       THEN /\ track_idx' = track_idx + 1
            /\ pc' = "track"
            /\ UNCHANGED <<has_wav, seg_idx>>
       ELSE IF ~(InputVideo(track_idx) \in pycrop)
       THEN /\ pc' = "exit1"
            /\ UNCHANGED <<track_idx, has_wav, seg_idx>>
       ELSE /\ has_wav' = (InputAudio(track_idx) \in pycrop)
            /\ seg_idx' = 0
            /\ pc' = "video"
            /\ UNCHANGED track_idx
    /\ UNCHANGED <<args, pywork, pickled, pycrop, scores, tracks,
                   score_array, segments, filtered_segments,
                   total_segments, calls, video_outcome, succeeded, raised,
                   summary, exVars, batchVars>>

\* lines 101-116: the two `continue`s, else enter the segment loop
CheckTrack ==
    /\ pc = "check"
    /\ IF Len(filtered_segments) = 0 \/ ~VideoPresent(track_idx)
       THEN /\ track_idx' = track_idx + 1
            /\ pc' = "track"
            /\ UNCHANGED <<has_wav, seg_idx>>
       ELSE /\ has_wav' = (InputAudio(track_idx) \in pycrop)
            /\ seg_idx' = 0
            /\ pc' = "video"
            /\ UNCHANGED track_idx
    /\ UNCHANGED <<args, pywork, pickled, pycrop, scores, tracks,
                   score_array, segments, filtered_segments,
                   total_segments, calls, video_outcome, succeeded, raised,
                   summary, exVars, batchVars>>

\* end of one iteration of the segment loop (line 118)
AfterSegment ==
    IF seg_idx + 1 < Len(filtered_segments)
    THEN /\ seg_idx' = seg_idx + 1
         /\ pc' = "video"
         /\ UNCHANGED track_idx
    ELSE /\ track_idx' = track_idx + 1
         /\ pc' = "track"
         /\ UNCHANGED seg_idx

Call(step, cmd) ==
    [track |-> track_idx, seg |-> seg_idx, step |-> step, cmd |-> cmd]

\* lines 125-130: cmd_video; a raise goes to the except clause (142-143)
CallVideo ==
    /\ pc = "video"
    /\ \E outcome \in Outcomes :
         /\ calls' = Append(calls, Call("video",
                VideoCmd(track_idx, seg_idx, filtered_segments[seg_idx + 1])))
         /\ IF outcome = "raised"
            THEN /\ video_outcome' = "none"
                 /\ raised' = raised + 1
                 /\ AfterSegment
            ELSE /\ video_outcome' = outcome
                 /\ pc' = "wav"
                 /\ UNCHANGED <<track_idx, seg_idx, raised>>
    /\ UNCHANGED <<args, pywork, pickled, pycrop, scores, tracks,
                   score_array, segments, filtered_segments, has_wav,
                   total_segments, succeeded, summary, exVars, batchVars>>

\* whether the statement total_segments += 1 (line 141) is reached
Counted(outcome) == outcome # "raised"

\* lines 132-141: cmd_wav, then the count
CallWav ==
    /\ pc = "wav"
    /\ \E outcome \in Outcomes :
         /\ calls' = Append(calls, Call("wav",
                WavCmd(track_idx, seg_idx, filtered_segments[seg_idx + 1], has_wav)))
         /\ total_segments' = IF Counted(outcome) THEN total_segments + 1
                              ELSE total_segments
         /\ succeeded' = IF video_outcome = "zero" /\ outcome = "zero"
                         THEN succeeded + 1 ELSE succeeded
         /\ raised' = IF outcome = "raised" THEN raised + 1 ELSE raised
         /\ video_outcome' = "none"
         /\ AfterSegment
    /\ UNCHANGED <<args, pywork, pickled, pycrop, scores, tracks,
                   score_array, segments, filtered_segments, has_wav,
                   summary, exVars, batchVars>>

\* lines 169-173: the block of one track, one line per kept segment
SummaryBlock(k, kept) ==
    [track |-> k,
     lines |-> [j \in 1..Len(kept) |->
                  [seg |-> j - 1,
                   start |-> Millis(kept[j][1]),
                   end |-> Millis(kept[j][2])]]]

\* lines 162-173: the blocks of the tracks that have a kept segment
SummaryBlocks(scs, threshold, minDuration) ==
    SelectSeq([k \in 1..Len(scs) |->
                  SummaryBlock(k - 1,
                      FilterSegments(find_speaking_segments(scs[k], threshold),
                                     minDuration))],
              LAMBDA block : Len(block.lines) > 0)

\* lines 145-175
WriteSummary ==
    /\ pc = "report"
    /\ summary' = <<[total_tracks |-> Len(tracks),
                     total_segments |-> total_segments,
                     blocks |-> SummaryBlocks(scores, args.threshold, args.minDuration)]>>
    /\ pc' = "done"
    /\ UNCHANGED <<args, pywork, pickled, pycrop, scores, tracks, track_idx,
                   score_array, segments, filtered_segments, has_wav, seg_idx,
                   total_segments, calls, video_outcome, succeeded, raised,
                   exVars, batchVars>>

----------------------------------------------------------------------------
(* initial states *)

\* score arrays of a run: values 0, 1, 2 stand for the floats 0.0, 1.0, 2.0
RunArrays == {<<0, 1, 1>>, <<1, 0, 2, 2, 0, 1, 1, 1>>}
RunThresholds == {0, 1}
RunMinDurations == {8, 12}       \* 0.08 s and 0.12 s: 2 and 3 frames

\* Scenario A of the specification, and one array with runs of 12 and 11 frames
ScenarioA == <<0, 0, 1, 1, 1, 0, 1, 1, 0>>
ScenarioC == [k \in 1..24 |-> IF k = 13 THEN 0 ELSE 1]
DetectArrays == SeqsUpTo({0, 1, 2}, MaxFrames) \cup {ScenarioA, ScenarioC}
DetectThresholds == {0, 1}
DetectMinDurations == {-10, 0, 3, 4, 7, 8, 10, 12, 50}

RunIdle ==
    /\ scores = <<>> /\ tracks = <<>>
    /\ track_idx = 0 /\ score_array = <<>>
    /\ segments = <<>> /\ filtered_segments = <<>>
    /\ has_wav = FALSE /\ seg_idx = 0
    /\ total_segments = 0
    /\ calls = <<>> /\ video_outcome = "none" /\ succeeded = 0 /\ raised = 0
    /\ summary = <<>>

ExIdle == ex = [start_frame |-> 0, end_frame |-> 0] /\ outdir = {}

BatchIdle ==
    /\ bargs = [videoFolder |-> FALSE]
    /\ found = [folder |-> 0, dataset |-> 0]
    /\ videos = <<>> /\ processed = <<>>

\* the script is started: the command line is parsed, nothing is loaded
Init ==
    /\ pc = "start"
    /\ args \in [threshold : RunThresholds, minDuration : RunMinDurations]
    /\ pywork \in [scores : BOOLEAN, tracks : BOOLEAN]
    /\ \E sc \in SeqsUpTo(RunArrays, MaxTracks) :
         /\ pickled = [scores |-> sc, tracks |-> [k \in 1..Len(sc) |-> "track"]]
         /\ pycrop \in SUBSET ({InputVideo(k) : k \in 0..(Len(sc) - 1)}
                               \cup {InputAudio(k) : k \in 0..(Len(sc) - 1)})
    /\ RunIdle /\ ExIdle /\ BatchIdle

Next ==
    \/ LoadInputs
    \/ NextTrack
    \/ Detect
    \/ Filter
    \/ CheckTrack
    \/ CallVideo
    \/ CallWav
    \/ WriteSummary

Spec == Init /\ [][Next]_vars

\* the script is one sequential process: it takes its next step
LiveSpec == Spec /\ WF_vars(Next)

\* the detector and the filter applied to one array (lines 92-99)
DetectInit ==
    /\ pc = "detect"
    /\ args \in [threshold : DetectThresholds, minDuration : DetectMinDurations]
    /\ pywork = [scores |-> TRUE, tracks |-> TRUE]
    /\ \E arr \in DetectArrays :
         /\ pickled = [scores |-> <<arr>>, tracks |-> <<"track">>]
         /\ scores = <<arr>>
         /\ score_array = arr
    /\ tracks = <<"track">>
    /\ pycrop = {}
    /\ track_idx = 0
    /\ segments = <<>> /\ filtered_segments = <<>>
    /\ has_wav = FALSE /\ seg_idx = 0
    /\ total_segments = 0
    /\ calls = <<>> /\ video_outcome = "none" /\ succeeded = 0 /\ raised = 0
    /\ summary = <<>>
    /\ ExIdle /\ BatchIdle

DetectNext == Detect \/ Filter

DetectSpec == DetectInit /\ [][DetectNext]_vars

----------------------------------------------------------------------------
(* extract_segment (lines 63-87) *)

\* its output_path argument, and the two temporaries derived from it
OutputPath == OutputFile(0, 0)
TempVideo == OutputPath \o <<"_temp.avi">>
TempAudio == OutputPath \o <<"_temp.wav">>

\* files after ffmpeg -y ... <out>: written on success, possibly left behind
\* (partial) on failure; nothing is run when subprocess.call itself raises
AfterFfmpeg(files, out, outcome) ==
    IF outcome = "zero" THEN {files \cup {out}}
    ELSE IF outcome = "nonzero" THEN {files, files \cup {out}}
    ELSE {files}

ExCall(step, cmd) == [step |-> step, cmd |-> cmd]

\* one subprocess.call of extract_segment; a raise leaves the function
ExStep(at, step, cmd, then) ==
    /\ pc = at
    /\ \E outcome \in Outcomes :
         /\ calls' = Append(calls, ExCall(step, cmd))
         /\ outdir' \in AfterFfmpeg(outdir, cmd.out, outcome)
         /\ pc' = IF outcome = "raised" THEN "ex_raised" ELSE then
    /\ UNCHANGED <<ex, runVars, video_outcome, succeeded, raised, batchVars>>

\* lines 65-72
ExTrimVideo ==
    ExStep("ex_video", "video",
           TrimCmd(InputVideo(0), Millis(ex.start_frame),
                   Millis(ex.end_frame) - Millis(ex.start_frame), TempVideo),
           "ex_audio")

\* lines 74-77
ExTrimAudio ==
    ExStep("ex_audio", "audio",
           TrimCmd(InputAudio(0), Millis(ex.start_frame),
                   Millis(ex.end_frame) - Millis(ex.start_frame), TempAudio),
           "ex_combine")

\* lines 79-81: ffmpeg -y -i temp_video -i temp_audio -c:v copy -c:a copy output
ExCombine ==
    ExStep("ex_combine", "combine",
           [op |-> "mux", input |-> TempVideo, input2 |-> TempAudio, out |-> OutputPath],
           "ex_cleanup")

\* lines 83-87
ExCleanup ==
    /\ pc = "ex_cleanup"
    /\ outdir' = outdir \ {TempVideo, TempAudio}
    /\ pc' = "ex_returned"
    /\ UNCHANGED <<ex, calls, runVars, video_outcome, succeeded, raised, batchVars>>

ExtractInit ==
    /\ pc = "ex_video"
    /\ \E s \in 0..(MaxFrames - 1), e \in 1..MaxFrames :
         s < e /\ ex = [start_frame |-> s, end_frame |-> e]
    /\ outdir \in SUBSET {OutputPath}
    /\ args = [threshold |-> 0, minDuration |-> 50]
    /\ pywork = [scores |-> TRUE, tracks |-> TRUE]
    /\ pickled = [scores |-> <<>>, tracks |-> <<>>]
    /\ pycrop = {InputVideo(0), InputAudio(0)}
    /\ RunIdle /\ BatchIdle

ExtractNext == ExTrimVideo \/ ExTrimAudio \/ ExCombine \/ ExCleanup

ExtractSpec == ExtractInit /\ [][ExtractNext]_vars

----------------------------------------------------------------------------
(* batchProcessVideos.py *)

\* Python values of args.hf_output_repo: None or a str (its characters)
PyNone == [type |-> "NoneType", chars |-> <<>>]
PyStr(chars) == [type |-> "str", chars |-> chars]

HasSlash(chars) == \E n \in 1..Len(chars) : chars[n] = "/"

\* repo_id.split("/")[-1]
RECURSIVE LastPart(_)
LastPart(chars) ==
    IF chars = <<>> THEN <<>>
    ELSE IF chars[Len(chars)] = "/" THEN <<>>
    ELSE Append(LastPart(SubSeq(chars, 1, Len(chars) - 1)), chars[Len(chars)])

HF_USERNAME == <<"v">>

\* lines 35-43; `"/" in repo_id` raises TypeError when repo_id is None
normalize_repo_id(repo_id, repo_type, username) ==
    IF repo_id.type # "str"
    THEN [raises |-> "TypeError", value |-> PyNone]
    ELSE IF repo_type = "dataset"
         THEN IF ~HasSlash(repo_id.chars)
              THEN [raises |-> "none", value |-> PyStr(username \o <<"/">> \o repo_id.chars)]
              ELSE [raises |-> "none", value |-> repo_id]
         ELSE IF HasSlash(repo_id.chars)
              THEN [raises |-> "none", value |-> PyStr(LastPart(repo_id.chars))]
              ELSE [raises |-> "none", value |-> repo_id]

\* truth value of a str or None
Truthy(v) == v.type = "str" /\ v.chars # <<>>

\* lines 47-53: runs before any validation, whatever --push_to_hub is
Normalize ==
    /\ pc = "b_normalize"
    /\ LET r == normalize_repo_id(bargs.hf_output_repo, bargs.repo_type, HF_USERNAME)
       IN  IF r.raises # "none"
           THEN pc' = "b_crash" /\ UNCHANGED bargs
           ELSE /\ bargs' = [bargs EXCEPT !.hf_output_repo = r.value]
                /\ pc' = "b_validate"
    /\ UNCHANGED <<found, videos, processed, calls, runVars, video_outcome,
                   succeeded, raised, exVars>>

\* lines 58-81
Validate ==
    /\ pc = "b_validate"
    /\ pc' = IF ~bargs.videoFolder /\ ~bargs.hf_dataset THEN "b_exit1"
             ELSE IF bargs.push_to_hub /\ ~Truthy(bargs.hf_output_repo) THEN "b_exit1"
             ELSE "b_local"
    /\ UNCHANGED <<batchVars, calls, runVars, video_outcome, succeeded, raised, exVars>>

\* lines 207-218: the glob over the folder
LocalGlob ==
    /\ pc = "b_local"
    /\ IF ~bargs.videoFolder
       THEN pc' = "b_dataset" /\ UNCHANGED videos
       ELSE /\ videos' = [n \in 1..found.folder |-> n]
            /\ pc' = IF found.folder = 0 THEN "b_exit1" ELSE "b_local_loop"
    /\ UNCHANGED <<bargs, found, processed, calls, runVars, video_outcome,
                   succeeded, raised, exVars>>

\* what one process_video call (lines 157-202) ends with
ProcessResults ==
    {"talknet_failed", "extract_failed"}
        \cup (IF bargs.push_to_hub THEN {"uploaded", "upload_failed"} ELSE {"complete"})

CountFrom(source) == Cardinality({n \in 1..Len(processed) : processed[n].source = source})

\* lines 220-223
LocalProcess ==
    /\ pc = "b_local_loop"
    /\ \E result \in ProcessResults :
         processed' = Append(processed,
             [source |-> "folder", video |-> videos[CountFrom("folder") + 1],
              result |-> result])
    /\ pc' = IF CountFrom("folder") + 1 = Len(videos) THEN "b_dataset" ELSE "b_local_loop"
    /\ UNCHANGED <<bargs, found, videos, calls, runVars, video_outcome,
                   succeeded, raised, exVars>>

\* lines 228-242: one sample of the streamed dataset, or its end; 244-249
DatasetProcess ==
    /\ pc = "b_dataset"
    /\ IF bargs.hf_dataset /\ CountFrom("dataset") < found.dataset
       THEN /\ \E result \in ProcessResults :
                 processed' = Append(processed,
                     [source |-> "dataset", video |-> CountFrom("dataset") + 1,
                      result |-> result])
            /\ UNCHANGED pc
       ELSE /\ pc' = "b_done"
            /\ UNCHANGED processed
    /\ UNCHANGED <<bargs, found, videos, calls, runVars, video_outcome,
                   succeeded, raised, exVars>>

RepoIds == {PyNone, PyStr(<<>>), PyStr(<<"r">>), PyStr(<<"u", "/", "r">>)}

BatchInit ==
    /\ pc = "b_normalize"
    /\ bargs \in [videoFolder : BOOLEAN, hf_dataset : BOOLEAN, push_to_hub : BOOLEAN,
                  hf_output_repo : RepoIds, repo_type : {"dataset", "model", "space"}]
    /\ found \in [folder : 0..MaxVideos, dataset : 0..MaxVideos]
    /\ bargs.videoFolder \/ found.folder = 0
    /\ bargs.hf_dataset \/ found.dataset = 0
    /\ videos = <<>> /\ processed = <<>>
    /\ args = [threshold |-> 0, minDuration |-> 50]
    /\ pywork = [scores |-> TRUE, tracks |-> TRUE]
    /\ pickled = [scores |-> <<>>, tracks |-> <<>>]
    /\ pycrop = {}
    /\ RunIdle /\ ExIdle

BatchNext == Normalize \/ Validate \/ LocalGlob \/ LocalProcess \/ DatasetProcess

BatchSpec == BatchInit /\ [][BatchNext]_vars

----------------------------------------------------------------------------
(* properties of the detector and the filter, under DetectSpec *)

Detected == pc \in {"filter", "check"}
Filtered == pc = "check"

NFrames == Len(score_array)
Active(i) == score_array[i + 1] > args.threshold
InSegment(i) == \E k \in 1..Len(segments) : segments[k][1] <= i /\ i < segments[k][2]
RunStarts == {i \in 0..(NFrames - 1) : Active(i) /\ (i = 0 \/ ~Active(i - 1))}

\* C1: find_speaking_segments returns exactly the maximal runs of active
\* frames (score > threshold, strictly): a frame is inside a returned interval
\* iff it is active, every interval is bordered by inactive frames or the ends
\* of the array, there is one interval per run, a frame whose score equals the
\* threshold is neither inside nor at the start of an interval, and an active
\* last frame makes the last interval end at len(scores).
C1_MaximalRuns ==
    Detected =>
        /\ \A i \in 0..(NFrames - 1) : InSegment(i) <=> Active(i)
        /\ \A k \in 1..Len(segments) :
             /\ segments[k][1] = 0 \/ ~Active(segments[k][1] - 1)
             /\ segments[k][2] = NFrames \/ ~Active(segments[k][2])
        /\ Len(segments) = Cardinality(RunStarts)
        /\ \A i \in 0..(NFrames - 1) :
             score_array[i + 1] = args.threshold =>
                /\ ~InSegment(i)
                /\ \A k \in 1..Len(segments) : segments[k][1] # i
        /\ (NFrames > 0 /\ Active(NFrames - 1)) =>
                /\ Len(segments) > 0
                /\ segments[Len(segments)][2] = NFrames

C1_Witness ==
    /\ Detected
    /\ Len(segments) >= 2
    /\ Active(NFrames - 1)
    /\ \E i \in 0..(NFrames - 1) : score_array[i + 1] = args.threshold

\* C4: every returned interval satisfies 0 <= start < end <= len(scores), and
\* consecutive intervals satisfy end_k <= start_(k+1) and start_k < start_(k+1).
C4_DisjointIncreasing ==
    Detected =>
        /\ \A k \in 1..Len(segments) :
             /\ 0 <= segments[k][1]
             /\ segments[k][1] < segments[k][2]
             /\ segments[k][2] <= NFrames
        /\ \A k \in 1..(Len(segments) - 1) :
             /\ segments[k][2] <= segments[k + 1][1]
             /\ segments[k][1] < segments[k + 1][1]

C4_Witness == Detected /\ Len(segments) >= 2 /\ segments[1][1] > 0

\* sub is seq with some elements left out, order kept
RECURSIVE IsSubsequence(_, _)
IsSubsequence(sub, seq) ==
    IF sub = <<>> THEN TRUE
    ELSE IF seq = <<>> THEN FALSE
    ELSE IF Head(sub) = Head(seq) THEN IsSubsequence(Tail(sub), Tail(seq))
    ELSE IsSubsequence(sub, Tail(seq))

IsKept(seg) == \E j \in 1..Len(filtered_segments) : filtered_segments[j] = seg

\* floor(minDurationSeconds * fps), minDuration in hundredths of a second
FloorMinFrames == (args.minDuration * 25) \div 100

\* C2: the filter keeps (start, end) iff end - start >= floor(minDuration * fps)
\* (equality kept), the kept list is a subsequence of the detected list, 0.5 s
\* means 12 frames (12 kept, 11 dropped) and 0.12 s means 3 frames (Scenario A
\* keeps (2,5) and drops (6,8)).
C2_DurationFilter ==
    Filtered =>
        /\ \A k \in 1..Len(segments) :
             IsKept(segments[k]) <=>
                (segments[k][2] - segments[k][1]) >= FloorMinFrames
        /\ IsSubsequence(filtered_segments, segments)
        /\ args.minDuration = 50 =>
             \A k \in 1..Len(segments) :
                /\ segments[k][2] - segments[k][1] = 12 => IsKept(segments[k])
                /\ segments[k][2] - segments[k][1] = 11 => ~IsKept(segments[k])
        /\ (args.minDuration = 12 /\ args.threshold = 0 /\ score_array = ScenarioA) =>
                /\ segments = << <<2, 5>>, <<6, 8>> >>
                /\ filtered_segments = << <<2, 5>> >>

C2_Witness ==
    /\ Filtered
    /\ args.minDuration = 50 /\ args.threshold = 0
    /\ score_array = ScenarioC
    /\ segments = << <<0, 12>>, <<13, 24>> >>
    /\ filtered_segments = << <<0, 12>> >>

----------------------------------------------------------------------------
(* properties of the run, under Spec and LiveSpec *)

Finished == pc = "done" /\ Len(summary) = 1

\* the kept (post-filter) and the detected intervals of track k of the input
DetectedOf(k) == find_speaking_segments(pickled.scores[k + 1], args.threshold)
KeptOf(k) == FilterSegments(DetectedOf(k), args.minDuration)

HasVideo(k) == (<<"pycrop/">> \o ZeroPad(k, 5) \o <<".avi">>) \in pycrop
HasAudio(k) == (<<"pycrop/">> \o ZeroPad(k, 5) \o <<".wav">>) \in pycrop

TrackIds == 0..(Len(pickled.scores) - 1)
CallIds(step) == {n \in 1..Len(calls) : calls[n].step = step}

RECURSIVE SumKept(_)
SumKept(ks) ==
    IF ks = {} THEN 0
    ELSE LET k == CHOOSE x \in ks : TRUE
         IN  Len(KeptOf(k)) + SumKept(ks \ {k})

\* C3: the total written to summary.txt is the number of kept segments all of
\* whose extraction sub-steps returned status zero.
C3_TotalCountsOnlySuccesses ==
    Finished => summary[1].total_segments = succeeded

\* C5: no extraction step is ever attempted for a track whose video artifact
\* is missing and such a track adds nothing to the total; every track that has
\* its video gets a step for each of its kept segments, and the total is the
\* number of those segments whose extraction did not raise.
C5_MissingVideoSkipsTrack ==
    /\ \A n \in 1..Len(calls) : HasVideo(calls[n].track)
    /\ Finished =>
         /\ \A k \in TrackIds : HasVideo(k) =>
              \A j \in 0..(Len(KeptOf(k)) - 1) :
                 \E n \in CallIds("video") : calls[n].track = k /\ calls[n].seg = j
         /\ summary[1].total_segments + raised
               = SumKept({k \in TrackIds : HasVideo(k)})

C5_Witness ==
    /\ Finished
    /\ \E k \in TrackIds : ~HasVideo(k) /\ Len(KeptOf(k)) > 0
    /\ \E k \in TrackIds : HasVideo(k) /\ Len(KeptOf(k)) > 0
    /\ summary[1].total_segments > 0

\* C6: once scores.pckl and tracks.pckl are present the run reaches its end
\* and writes summary.txt, whatever videos are missing and whatever the
\* extraction steps do.
C6_RunCompletes ==
    (pc = "start" /\ pywork.scores /\ pywork.tracks) ~> Finished

C6_Witness ==
    /\ Finished
    /\ raised > 0
    /\ succeeded < summary[1].total_segments
    /\ \E k \in TrackIds : ~HasVideo(k) /\ Len(KeptOf(k)) > 0

\* C7: the clip of a segment is named by the track index (5 digits) and by the
\* segment's 0-based position in the track's kept list (3 digits), and two
\* calls write the same path only if they are the same step of the same
\* (track, segment) pair.
C7_NamesByKeptIndex ==
    \A n \in 1..Len(calls) :
       LET c == calls[n]
           kept == KeptOf(c.track)
       IN  /\ c.seg < Len(kept)
           /\ c.step = "video" =>
                /\ c.cmd.ss = Millis(kept[c.seg + 1][1])
                /\ c.cmd.t = Millis(kept[c.seg + 1][2] - kept[c.seg + 1][1])
                /\ c.cmd.out = <<"speaking_segments/", "track_">> \o ZeroPad(c.track, 5)
                      \o <<"_segment_">> \o ZeroPad(c.seg, 3) \o <<".avi">>
           /\ c.step = "wav" =>
                c.cmd.out = <<"speaking_segments/", "track_">> \o ZeroPad(c.track, 5)
                      \o <<"_segment_">> \o ZeroPad(c.seg, 3) \o <<".wav">>
           /\ \A m \in 1..(n - 1) :
                calls[m].cmd.out = c.cmd.out =>
                   /\ calls[m].track = c.track
                   /\ calls[m].seg = c.seg
                   /\ calls[m].step = c.step

C7_Witness ==
    /\ \E n \in CallIds("wav") :
          IndexIn(DetectedOf(calls[n].track), KeptOf(calls[n].track)[calls[n].seg + 1])
             # calls[n].seg
    /\ \E n, m \in CallIds("video") : calls[n].track # calls[m].track
    /\ \E n, m \in CallIds("video") : calls[n].seg # calls[m].seg

\* C8: the audio of a segment is trimmed from the track's WAV over the start
\* and duration of the video trim when the WAV exists, and is otherwise
\* decoded (mono, 16-bit PCM, 16 kHz) from the segment's trimmed clip; a track
\* without WAV has its segments extracted like any other.
C8_AudioFallback ==
    /\ \A n \in CallIds("wav") :
         /\ n > 1
         /\ LET c == calls[n]
                v == calls[n - 1]
            IN  /\ v.step = "video" /\ v.track = c.track /\ v.seg = c.seg
                /\ IF HasAudio(c.track)
                   THEN /\ c.cmd.op = "copy"
                        /\ c.cmd.input = <<"pycrop/">> \o ZeroPad(c.track, 5) \o <<".wav">>
                        /\ c.cmd.ss = v.cmd.ss
                        /\ c.cmd.t = v.cmd.t
                   ELSE /\ c.cmd.op = "decode"
                        /\ c.cmd.input = v.cmd.out
                        /\ c.cmd.acodec = "pcm_s16le"
                        /\ c.cmd.ar = 16000
                        /\ c.cmd.ac = 1
    /\ Finished =>
         /\ \A k \in TrackIds : HasVideo(k) =>
              \A j \in 0..(Len(KeptOf(k)) - 1) :
                 \E n \in CallIds("video") : calls[n].track = k /\ calls[n].seg = j
         /\ Cardinality(CallIds("video")) - Cardinality(CallIds("wav")) <= raised
         /\ summary[1].total_segments + raised = Cardinality(CallIds("video"))

C8_Witness ==
    /\ Finished
    /\ \E n \in CallIds("wav") : calls[n].cmd.op = "decode"
    /\ \E n \in CallIds("wav") : calls[n].cmd.op = "copy"
    /\ raised = 0

----------------------------------------------------------------------------
(* extract_segment, under ExtractSpec *)

\* C9: once extract_segment is over, by returning or by a step raising, none
\* of its temporary files exists.
C9_TempsRemovedOnEveryExit ==
    pc \in {"ex_returned", "ex_raised"} =>
        /\ ~((OutputFile(0, 0) \o <<"_temp.avi">>) \in outdir)
        /\ ~((OutputFile(0, 0) \o <<"_temp.wav">>) \in outdir)

----------------------------------------------------------------------------
(* batchProcessVideos.py, under BatchSpec *)

BatchOver == pc \in {"b_done", "b_exit1", "b_crash"}

\* C10: a run over a folder holding at least one video, without --push_to_hub,
\* calls process_video for every video found, whatever --repo_type is and
\* whether or not --hf_output_repo was given.
C10_LocalRunNeedsNoRepo ==
    (BatchOver /\ bargs.videoFolder /\ found.folder > 0 /\ ~bargs.push_to_hub) =>
        CountFrom("folder") = found.folder

====
